---------------------------- MODULE Spec2Model ----------------------------
(***************************************************************************)
(* Model of VolumeMaskAndSlice.cxx: main() reads a volume, rasterises a    *)
(* cylindrical byte mask, reslices volume and mask, scales and multiplies  *)
(* the slices, configures the GPU mapper and the renderers and runs the    *)
(* interactor's event loop.                                                *)
(*                                                                         *)
(* Numbers.  Coordinates are doubles in the program.  origin and spacing   *)
(* are drawn from integers here, so center (origin + spacing*0.5*(..)) and *)
(* radius (dims[0]/2.0 - 50) are multiples of 1/2: the variables center,   *)
(* radius and cylinder hold TWICE the program's value, and the implicit    *)
(* function is computed times four.  All of these are exact in a double.   *)
(* A pixel value is held as its numerator over Den (255): the only         *)
(* fractions the program produces are (mask byte) * (1/255.0).             *)
(***************************************************************************)
EXTENDS Integers, Sequences, FiniteSets, TLC

(* ------------------------------ bounds --------------------------------- *)
MaxDim == 2
MaxPix == 2
MaxCam == 1
VolHigh == 7
MidByte == 128

(* ------------------------- program constants --------------------------- *)
RadiusMargin == 50
MaskOff == 0
MaskOn == 255
Den == 255
NumRenderers == 2

\* The content of a byte nobody has written: any of 0..255 when it is read.
Uninit == -1

Min(a, b) == IF a < b THEN a ELSE b
Vec3 == 1..3

(* --------------------------- the input file ---------------------------- *)
ScalarTypes == {"short", "float"}

\* Placements of the grid in the file: extent minimum, origin, spacing.
Geoms ==
  { [extMin |-> <<0, 0, 0>>,  origin |-> <<0, 0, 0>>,  spacing |-> <<1, 1, 1>>],
    [extMin |-> <<0, 0, 0>>,  origin |-> <<49, 0, 7>>, spacing |-> <<1, 1, 1>>],
    [extMin |-> <<-1, 0, 0>>, origin |-> <<0, 0, 0>>,  spacing |-> <<2, 2, 2>>],
    [extMin |-> <<1, 0, 0>>,  origin |-> <<1, 0, 0>>,  spacing |-> <<1, 1, 1>>] }

ExtentOf(extMin, dim) ==
  [i \in 1..6 |-> IF i % 2 = 1 THEN extMin[(i + 1) \div 2]
                  ELSE extMin[i \div 2] + dim[i \div 2] - 1]

\* What vtkXMLImageDataReader can deliver from Data/CTHead.vti: a grid of
\* up to MaxDim voxels a side, or an empty one (a dimension of 0, as when
\* the file cannot be read), whose extent starts at 0.
DimsFor(g) ==
  { d \in [Vec3 -> 0..MaxDim] :
      (\E i \in Vec3 : d[i] = 0) => g.extMin = <<0, 0, 0>> }

FilesOf(g) ==
  { [origin |-> g.origin, spacing |-> g.spacing,
     extent |-> ExtentOf(g.extMin, d), type |-> t] :
       d \in DimsFor(g), t \in ScalarTypes }

Files == UNION { FilesOf(g) : g \in Geoms }

(* ------------------------------ vtkImageData --------------------------- *)
GetDimensions(img) ==
  [i \in Vec3 |-> img.extent[2 * i] - img.extent[2 * i - 1] + 1]

NumVoxels(img) ==
  LET d == GetDimensions(img) IN
  IF d[1] <= 0 \/ d[2] <= 0 \/ d[3] <= 0 THEN 0 ELSE d[1] * d[2] * d[3]

SetDimensions(img, d) ==
  [img EXCEPT !.extent = [i \in 1..6 |-> IF i % 2 = 1 THEN 0 ELSE d[i \div 2] - 1]]

SetOrigin(img, a, b, c) == [img EXCEPT !.origin = <<a, b, c>>]

SetSpacing(img, s) == [img EXCEPT !.spacing = s]

SetExtent(img, e) == [img EXCEPT !.extent = e]

\* Fresh memory for one scalar per voxel; nothing is written to it.
AllocateScalars(img, type) ==
  [img EXCEPT !.type = type, !.buf = [k \in 1..NumVoxels(img) |-> Uninit]]

NullPtr == [null |-> TRUE, off |-> 0]

\* The address of voxel (i, j, k): NULL when it is outside the extent,
\* else the offset from the first byte of the buffer.
GetScalarPointer(img, i, j, k) ==
  LET e == img.extent
      d == GetDimensions(img)
  IN IF \/ i < e[1] \/ i > e[2]
        \/ j < e[3] \/ j > e[4]
        \/ k < e[5] \/ k > e[6]
     THEN NullPtr
     ELSE [null |-> FALSE,
           off  |-> (i - e[1]) + (j - e[3]) * d[1] + (k - e[5]) * d[1] * d[2]]

(* ------------------------------- vtkCylinder --------------------------- *)
\* vtkCylinder::EvaluateFunction(double xyz[3]) with the default axis (y):
\* (xyz[0]-Center[0])^2 + (xyz[2]-Center[2])^2 - Radius^2, here times 4.
EvaluateFunction(cyl, xyz) ==
  (2 * xyz[1] - cyl.center[1]) * (2 * xyz[1] - cyl.center[1])
  + (2 * xyz[3] - cyl.center[3]) * (2 * xyz[3] - cyl.center[3])
  - cyl.radius * cyl.radius

\* vtkImplicitFunction::EvaluateFunction(double x, double y, double z)
EvaluateFunction3(cyl, a, b, c) == EvaluateFunction(cyl, <<a, b, c>>)

\* A slip of the call: the indices passed in their own order, (x, y, z).
EvaluateAtVoxelUnswapped(cyl, lx, ly, lz) == EvaluateFunction3(cyl, lx, ly, lz)

\* The call of the loop body for the loop indices (lx, ly, lz).
EvaluateAtVoxel(cyl, lx, ly, lz) == EvaluateFunction3(cyl, lx, lz, ly)

\* The int stored through a char *: the char it converts to (char is signed
\* or unsigned with the platform, 8 bits wide) and the byte that char is.
IntToChar(v, signed) == IF signed /\ v > 127 THEN v - 256 ELSE v
ByteOf(c) == c % 256

\* The byte that the loop body stores for the loop indices (lx, ly, lz).
MaskByte(cyl, lx, ly, lz) ==
  IF EvaluateAtVoxel(cyl, lx, ly, lz) > 0 THEN MaskOff ELSE MaskOn

StoredByte(cyl, lx, ly, lz, signed) ==
  ByteOf(IntToChar(MaskByte(cyl, lx, ly, lz), signed))

(* --------------------- the slice pipeline (library) -------------------- *)
\* A value v of an image, as its numerator over Den.
Val(v) == v * Den

\* The model keeps the first MaxPix pixels of a 2D slice.  The sagittal
\* slice of a grid has dims[1] x dims[2] pixels (C indices), none when the
\* grid is empty.
SliceLen(img) ==
  LET d == GetDimensions(img) IN
  IF NumVoxels(img) = 0 THEN 0 ELSE Min(d[2] * d[3], MaxPix)

\* vtkImageReslice with linear interpolation: a pixel is the background
\* level 0 (a sample outside the input) or a convex combination of voxels
\* of the input.  The voxel values of the file are not known; VolHigh
\* stands for any of them.
VolumeLevels == {0, VolHigh}

\* The bytes a read of cell c can give.
CellLow(c) == IF c = Uninit THEN 0 ELSE c
CellHigh(c) == IF c = Uninit THEN MaskOn ELSE c

\* For the mask: 0, and of 0, MidByte (an interpolated value) and 255
\* those between the least and the greatest voxel.
MaskLevels(buf) ==
  {0} \cup { v \in {0, MidByte, MaskOn} :
               /\ \E k \in 1..Len(buf) : CellLow(buf[k]) <= v
               /\ \E k \in 1..Len(buf) : v <= CellHigh(buf[k]) }

ResliceOutputs(src, img, levels) ==
  { [src |-> src, type |-> img.type, pix |-> p] :
      p \in [1..SliceLen(img) -> { Val(v) : v \in levels }] }

\* static_cast<OT>(double): truncation for an integer type.
Cast(type, num) == IF type = "float" THEN num ELSE (num \div Den) * Den

\* A slip of the filter's setup: the scale left at 1, so 255 stays 255.
ShiftScaleUnscaled(img, shift, scaleDen, outType) ==
  [src |-> img.src, type |-> outType,
   pix |-> [p \in 1..Len(img.pix) |-> Cast(outType, img.pix[p] + Val(shift))]]

\* vtkImageShiftScale: out = static_cast<OT>((in + shift) * scale), with
\* scale = 1/scaleDen.  255 * (1/255.0) is exactly 1.0 in a double.
ShiftScaleExecute(img, shift, scaleDen, outType) ==
  [src |-> img.src, type |-> outType,
   pix |-> [p \in 1..Len(img.pix) |->
              Cast(outType, (img.pix[p] + Val(shift)) \div scaleDen)]]

\* vtkImageMathematics, VTK_MULTIPLY: out = in1 * in2, pixel by pixel.
Multiply(in1, in2) ==
  [src |-> in1.src, type |-> in1.type,
   pix |-> [p \in 1..Min(Len(in1.pix), Len(in2.pix)) |->
              (in1.pix[p] * in2.pix[p]) \div Den]]

\* A slip of the copy: none is made, dst names the object src names.
AliasCopy(h, dst, src) == [h EXCEPT !.names[dst] = h.names[src]]

\* vtkImageData::DeepCopy: dst gets its own copy of what src holds now.
DeepCopy(h, dst, src) ==
  [h EXCEPT !.objs[h.names[dst]] = h.objs[h.names[src]]]

(* ------------------------------- the script ---------------------------- *)
Script ==
  << "read", "params", "center", "mask", "ptr", "cylinder", "zhead",
     "reslice1", "copy1", "reslice2", "copy2", "shiftScale", "imMath",
     "mapper", "transfer", "renderers", "render", "start", "eventloop",
     "done" >>

IndexOf(p) == CHOOSE i \in 1..Len(Script) : Script[i] = p

\* A slip of the order: the interactor started right after the filter
\* chain is set up.
SuccEarlyStart(p) ==
  IF p = "imMath" THEN "start" ELSE Script[IndexOf(p) + 1]

\* The statement that follows p in main().
Succ(p) == Script[IndexOf(p) + 1]

VARIABLES pc, vol, origin, spacing, dims, extent, center, mask, ptr, radius,
          cylinder, x, y, z, stores, corrupt, reslice, objs, names,
          shiftScale, imMath, volumeMapper, scene, masked, texture, camera,
          charSigned

(***************************************************************************)
(* pc is the statement main() is at.  vol is the reader's output; origin,  *)
(* spacing, dims, extent, center, ptr, radius, x, y, z are main()'s        *)
(* locals; mask, cylinder, reslice, shiftScale, imMath, volumeMapper are   *)
(* its objects.  names maps reslicedVolume, reslicedMask and the filters'  *)
(* outputs to the image objects they refer to, objs holds those objects.   *)
(* masked is imMath's output and texture the mask voxels the mapper has    *)
(* read, both as of the last render.  scene and camera stand for the       *)
(* render window.  charSigned is the platform's signedness of char.        *)
(* stores is the history of the loop's stores (indices, byte, address) and *)
(* corrupt tells that one of them landed outside the mask's buffer; what   *)
(* such a store overwrites is not part of the model.                       *)
(***************************************************************************)
vars == << pc, vol, origin, spacing, dims, extent, center, mask, ptr, radius,
           cylinder, x, y, z, stores, corrupt, reslice, objs, names,
           shiftScale, imMath, volumeMapper, scene, masked, texture, camera,
           charSigned >>

params == << vol, origin, spacing, dims, extent, center >>
loopVars == << x, y, z >>
sliceVars == << reslice, objs, names, shiftScale, imMath >>
viewVars == << volumeMapper, scene, masked, texture, camera >>
platform == << charSigned >>

NoImage == [origin |-> <<0, 0, 0>>, spacing |-> <<1, 1, 1>>,
            extent |-> <<0, -1, 0, -1, 0, -1>>, type |-> "none", buf |-> << >>]

NoVolume == [origin |-> <<0, 0, 0>>, spacing |-> <<1, 1, 1>>,
             extent |-> <<0, -1, 0, -1, 0, -1>>, type |-> "none"]

NoSlice == [src |-> "none", type |-> "none", pix |-> << >>]

Objects == {"resliceOut", "objReslicedVolume", "objReslicedMask", "shiftScaleOut"}

Init ==
  /\ pc = "read"
  /\ vol = NoVolume
  /\ origin = <<0, 0, 0>> /\ spacing = <<0, 0, 0>>
  /\ dims = <<0, 0, 0>> /\ extent = <<0, 0, 0, 0, 0, 0>>
  /\ center = <<0, 0, 0>>
  /\ mask = NoImage
  /\ ptr = NullPtr
  /\ radius = 0
  /\ cylinder = [center |-> <<0, 0, 0>>, radius |-> 0]
  /\ x = 0 /\ y = 0 /\ z = 0
  /\ stores = << >>
  /\ corrupt = FALSE
  /\ reslice = [input |-> "none"]
  /\ objs = [o \in Objects |-> NoSlice]
  /\ names = [resliceOut |-> "resliceOut", reslicedVolume |-> "objReslicedVolume",
              reslicedMask |-> "objReslicedMask", shiftScaleOut |-> "shiftScaleOut"]
  /\ shiftScale = [input |-> "none", shift |-> 0, scaleDen |-> 1, outType |-> "none"]
  /\ imMath = [in1 |-> "none", in2 |-> "none", op |-> "none"]
  /\ volumeMapper = [input |-> "none", maskInput |-> "none", maskType |-> "none"]
  /\ scene = [ctfPoints |-> 0, renderers |-> 0, interactor |-> FALSE]
  /\ masked = NoSlice
  /\ texture = << >>
  /\ camera = 0
  /\ charSigned \in BOOLEAN

\* lines 34-36
ReadVolume ==
  /\ pc = "read"
  /\ \E f \in Files : vol' = f
  /\ pc' = Succ(pc)
  /\ UNCHANGED << platform, origin, spacing, dims, extent, center, mask, ptr, radius,
                  cylinder, loopVars, stores, corrupt, sliceVars, viewVars >>

\* lines 39-44
FetchParams ==
  /\ pc = "params"
  /\ origin' = vol.origin
  /\ spacing' = vol.spacing
  /\ dims' = GetDimensions(vol)
  /\ extent' = vol.extent
  /\ pc' = Succ(pc)
  /\ UNCHANGED << platform, vol, center, mask, ptr, radius, cylinder, loopVars, stores,
                  corrupt, sliceVars, viewVars >>

\* lines 47-51; center is held times 2
ComputeCenter ==
  /\ pc = "center"
  /\ center' = [i \in Vec3 |->
                  2 * origin[i] + spacing[i] * (extent[2 * i - 1] + extent[2 * i])]
  /\ pc' = Succ(pc)
  /\ UNCHANGED << platform, vol, origin, spacing, dims, extent, mask, ptr, radius,
                  cylinder, loopVars, stores, corrupt, sliceVars, viewVars >>

\* lines 54-59
CreateMask ==
  /\ pc = "mask"
  /\ mask' = AllocateScalars(
               SetExtent(
                 SetSpacing(
                   SetOrigin(SetDimensions(NoImage, dims),
                             extent[1], extent[3], extent[5]),
                   spacing),
                 extent),
               "uchar")
  /\ pc' = Succ(pc)
  /\ UNCHANGED << platform, params, ptr, radius, cylinder, loopVars, stores, corrupt,
                  sliceVars, viewVars >>

\* line 61
GetPtr ==
  /\ pc = "ptr"
  /\ ptr' = GetScalarPointer(mask, 0, 0, 0)
  /\ pc' = Succ(pc)
  /\ UNCHANGED << platform, params, mask, radius, cylinder, loopVars, stores, corrupt,
                  sliceVars, viewVars >>

\* lines 63-69; radius is held times 2
MakeCylinder ==
  /\ pc = "cylinder"
  /\ radius' = dims[1] - 2 * RadiusMargin
  /\ cylinder' = [center |-> center, radius |-> radius']
  /\ z' = 0
  /\ pc' = Succ(pc)
  /\ UNCHANGED << platform, params, mask, ptr, x, y, stores, corrupt, sliceVars, viewVars >>

\* line 75: the z loop's test; its exit is the statement after the loops
ZHead ==
  /\ pc = "zhead"
  /\ IF z < dims[3]
     THEN /\ y' = 0
          /\ pc' = "yhead"
     ELSE /\ y' = y
          /\ pc' = Succ(pc)
  /\ UNCHANGED << platform, params, mask, ptr, radius, cylinder, x, z, stores, corrupt,
                  sliceVars, viewVars >>

\* line 77
YHead ==
  /\ pc = "yhead"
  /\ IF y < dims[2]
     THEN /\ x' = 0
          /\ z' = z
          /\ pc' = "xhead"
     ELSE /\ x' = x
          /\ z' = z + 1
          /\ pc' = "zhead"
  /\ UNCHANGED << platform, params, mask, ptr, radius, cylinder, y, stores, corrupt,
                  sliceVars, viewVars >>

\* line 79, the test failing
XExit ==
  /\ pc = "xhead"
  /\ ~(x < dims[1])
  /\ y' = y + 1
  /\ pc' = "yhead"
  /\ UNCHANGED << platform, params, mask, ptr, radius, cylinder, x, z, stores, corrupt,
                  sliceVars, viewVars >>

InBuffer(p, img) == ~p.null /\ 0 <= p.off /\ p.off < Len(img.buf)

\* lines 79-90: *ptr++ = 0 or 255, ptr inside the mask's buffer
MaskStore ==
  /\ pc = "xhead"
  /\ x < dims[1]
  /\ InBuffer(ptr, mask)
  /\ LET v == StoredByte(cylinder, x, y, z, charSigned) IN
       /\ mask' = [mask EXCEPT !.buf[ptr.off + 1] = v]
       /\ stores' = Append(stores, [lx |-> x, ly |-> y, lz |-> z, val |-> v,
                                    null |-> ptr.null, off |-> ptr.off])
  /\ ptr' = [ptr EXCEPT !.off = ptr.off + 1]
  /\ x' = x + 1
  /\ UNCHANGED << platform, pc, params, radius, cylinder, y, z, corrupt, sliceVars, viewVars >>

\* lines 79-90 with ptr NULL or past the end of the buffer: the store is
\* undefined behaviour.  Through NULL the process faults; past the end of
\* the heap block it faults or lands in memory that is not the mask's, and
\* the loop goes on.
MaskStoreOutside ==
  /\ pc = "xhead"
  /\ x < dims[1]
  /\ ~InBuffer(ptr, mask)
  /\ \/ /\ pc' = "crashed"
        /\ UNCHANGED << ptr, x, stores, corrupt >>
     \/ /\ ~ptr.null
        /\ pc' = pc
        /\ stores' = Append(stores, [lx |-> x, ly |-> y, lz |-> z,
                                     val |-> StoredByte(cylinder, x, y, z, charSigned),
                                     null |-> ptr.null, off |-> ptr.off])
        /\ ptr' = [ptr EXCEPT !.off = ptr.off + 1]
        /\ x' = x + 1
        /\ corrupt' = TRUE
  /\ UNCHANGED << platform, params, mask, radius, cylinder, y, z, sliceVars, viewVars >>

\* lines 95-103
ResliceVolume ==
  /\ pc = "reslice1"
  /\ reslice' = [input |-> "reader"]
  /\ \E out \in ResliceOutputs("volume", vol, VolumeLevels) :
       objs' = [objs EXCEPT ![names.resliceOut] = out]
  /\ pc' = Succ(pc)
  /\ UNCHANGED << platform, params, mask, ptr, radius, cylinder, loopVars, stores, corrupt,
                  names, shiftScale, imMath, viewVars >>

\* lines 106-107
CopyVolumeSlice ==
  /\ pc = "copy1"
  /\ LET h == DeepCopy([objs |-> objs, names |-> names],
                       "reslicedVolume", "resliceOut") IN
       /\ objs' = h.objs
       /\ names' = h.names
  /\ pc' = Succ(pc)
  /\ UNCHANGED << platform, params, mask, ptr, radius, cylinder, loopVars, stores, corrupt,
                  reslice, shiftScale, imMath, viewVars >>

\* lines 110-111
ResliceMask ==
  /\ pc = "reslice2"
  /\ reslice' = [input |-> "mask"]
  /\ \E out \in ResliceOutputs("mask", mask, MaskLevels(mask.buf)) :
       objs' = [objs EXCEPT ![names.resliceOut] = out]
  /\ pc' = Succ(pc)
  /\ UNCHANGED << platform, params, mask, ptr, radius, cylinder, loopVars, stores, corrupt,
                  names, shiftScale, imMath, viewVars >>

\* lines 112-113
CopyMaskSlice ==
  /\ pc = "copy2"
  /\ LET h == DeepCopy([objs |-> objs, names |-> names],
                       "reslicedMask", "resliceOut") IN
       /\ objs' = h.objs
       /\ names' = h.names
  /\ pc' = Succ(pc)
  /\ UNCHANGED << platform, params, mask, ptr, radius, cylinder, loopVars, stores, corrupt,
                  reslice, shiftScale, imMath, viewVars >>

\* lines 117-122
ShiftScaleMask ==
  /\ pc = "shiftScale"
  /\ shiftScale' = [input |-> names.reslicedMask, shift |-> 0, scaleDen |-> Den,
                    outType |-> objs[names.reslicedVolume].type]
  /\ objs' = [objs EXCEPT ![names.shiftScaleOut] =
                ShiftScaleExecute(objs[shiftScale'.input], shiftScale'.shift,
                                  shiftScale'.scaleDen, shiftScale'.outType)]
  /\ pc' = Succ(pc)
  /\ UNCHANGED << platform, params, mask, ptr, radius, cylinder, loopVars, stores, corrupt,
                  reslice, names, imMath, viewVars >>

\* lines 126-129
SetupMath ==
  /\ pc = "imMath"
  /\ imMath' = [in1 |-> names.reslicedVolume, in2 |-> names.shiftScaleOut,
                op |-> "multiply"]
  /\ pc' = Succ(pc)
  /\ UNCHANGED << platform, params, mask, ptr, radius, cylinder, loopVars, stores, corrupt,
                  reslice, objs, names, shiftScale, viewVars >>

\* lines 132-135
SetupMapper ==
  /\ pc = "mapper"
  /\ volumeMapper' = [input |-> "reader", maskInput |-> "mask", maskType |-> "binary"]
  /\ pc' = Succ(pc)
  /\ UNCHANGED << platform, params, mask, ptr, radius, cylinder, loopVars, stores, corrupt,
                  sliceVars, scene, masked, texture, camera >>

\* lines 138-166: seven colour points, opacity, volume, lut, slice actor
SetupTransfer ==
  /\ pc = "transfer"
  /\ scene' = [scene EXCEPT !.ctfPoints = 7]
  /\ pc' = Succ(pc)
  /\ UNCHANGED << platform, params, mask, ptr, radius, cylinder, loopVars, stores, corrupt,
                  sliceVars, volumeMapper, masked, texture, camera >>

\* lines 169-197
SetupRenderers ==
  /\ pc = "renderers"
  /\ scene' = [scene EXCEPT !.renderers = NumRenderers, !.interactor = TRUE]
  /\ pc' = Succ(pc)
  /\ UNCHANGED << platform, params, mask, ptr, radius, cylinder, loopVars, stores, corrupt,
                  sliceVars, volumeMapper, masked, texture, camera >>

\* What a render pulls through the pipeline: imMath executes on its two
\* inputs, the mapper uploads the voxels of its mask input.
Pull ==
  /\ masked' = Multiply(objs[imMath.in1], objs[imMath.in2])
  /\ texture' = mask.buf

\* line 199
Render ==
  /\ pc = "render"
  /\ Pull
  /\ pc' = Succ(pc)
  /\ UNCHANGED << platform, params, mask, ptr, radius, cylinder, loopVars, stores, corrupt,
                  sliceVars, volumeMapper, scene, camera >>

\* lines 200-201
StartInteractor ==
  /\ pc = "start"
  /\ pc' = Succ(pc)
  /\ UNCHANGED << platform, params, mask, ptr, radius, cylinder, loopVars, stores, corrupt,
                  sliceVars, viewVars >>

\* the event loop: a trackball interaction moves the camera and renders
Interact ==
  /\ pc = "eventloop"
  /\ camera < MaxCam
  /\ camera' = camera + 1
  /\ Pull
  /\ UNCHANGED << platform, pc, params, mask, ptr, radius, cylinder, loopVars, stores,
                  corrupt, sliceVars, volumeMapper, scene >>

\* the event loop ends (key or window close); line 203
Quit ==
  /\ pc = "eventloop"
  /\ pc' = Succ(pc)
  /\ UNCHANGED << platform, params, mask, ptr, radius, cylinder, loopVars, stores, corrupt,
                  sliceVars, viewVars >>

Next ==
  \/ ReadVolume
  \/ FetchParams
  \/ ComputeCenter
  \/ CreateMask
  \/ GetPtr
  \/ MakeCylinder
  \/ ZHead
  \/ YHead
  \/ XExit
  \/ MaskStore
  \/ MaskStoreOutside
  \/ ResliceVolume
  \/ CopyVolumeSlice
  \/ ResliceMask
  \/ CopyMaskSlice
  \/ ShiftScaleMask
  \/ SetupMath
  \/ SetupMapper
  \/ SetupTransfer
  \/ SetupRenderers
  \/ Render
  \/ StartInteractor
  \/ Interact
  \/ Quit

Spec == Init /\ [][Next]_vars

(* ======================================================================= *)
(*                               the claims                                *)
(* ======================================================================= *)
ScriptLabels == { Script[i] : i \in 1..Len(Script) }

\* main() has reached the statement labelled l, or passed it.
Reached(l) == pc \in ScriptLabels /\ IndexOf(pc) >= IndexOf(l)

\* The three loops have ended and main() went on.
PastLoop == Reached("reslice1")

\* The loop indices of the k-th voxel of the buffer (k from 1), x fastest.
VX(k) == (k - 1) % dims[1]
VY(k) == ((k - 1) \div dims[1]) % dims[2]
VZ(k) == (k - 1) \div (dims[1] * dims[2])

Sq(a) == a * a

ReslicedVolume == objs[names.reslicedVolume]
ReslicedMask == objs[names.reslicedMask]
ScaledMask == objs[names.shiftScaleOut]

(* C1: after the mask-filling loop, every voxel of the mask holds 255 if    *)
(* the cylinder's function evaluated for that voxel is <= 0 and 0 if it is  *)
(* > 0, and nothing else.                                                   *)
C1_MaskIsCylinder ==
  PastLoop =>
    \A k \in 1..Len(mask.buf) :
      mask.buf[k] = IF EvaluateAtVoxel(cylinder, VX(k), VY(k), VZ(k)) <= 0
                    THEN 255 ELSE 0

(* C2: the mask has the volume's dimensions, origin, spacing and extent.    *)
C2_MaskSameParameters ==
  Reached("ptr") =>
    /\ GetDimensions(mask) = GetDimensions(vol)
    /\ mask.origin = vol.origin
    /\ mask.spacing = vol.spacing
    /\ mask.extent = vol.extent

(* C3: the cylinder is centred at the centre of the grid, so the voxels set *)
(* to 255 are centred on the middle of the grid: the mask is unchanged by   *)
(* the reflection of every index through the middle.                        *)
C3_CylinderCentred ==
  (PastLoop /\ ~corrupt) =>
    \A k \in 1..Len(mask.buf) :
      \A m \in 1..Len(mask.buf) :
        ( /\ VX(m) = dims[1] - 1 - VX(k)
          /\ VY(m) = dims[2] - 1 - VY(k)
          /\ VZ(m) = dims[3] - 1 - VZ(k) ) => mask.buf[m] = mask.buf[k]

Rendered == pc \in {"start", "eventloop", "done"}

(* C5: for every pixel of the slice, the masked value is the volume slice's *)
(* value where the mask slice is 255 and 0 where the mask slice is 0.       *)
C5_MaskedSlice ==
  Rendered =>
    /\ Len(masked.pix) = Len(ReslicedVolume.pix)
    /\ \A p \in 1..Len(masked.pix) :
         /\ ReslicedMask.pix[p] = Val(255) => masked.pix[p] = ReslicedVolume.pix[p]
         /\ ReslicedMask.pix[p] = Val(0) => masked.pix[p] = Val(0)

\* A rendered slice with a non-zero volume value kept under a 255 pixel of
\* the mask and another one removed under a 0 pixel.
C5_Witness ==
  /\ Rendered
  /\ \E p, q \in 1..Len(masked.pix) :
       /\ ReslicedMask.pix[p] = Val(255) /\ ReslicedVolume.pix[p] # 0
       /\ masked.pix[p] = ReslicedVolume.pix[p]
       /\ ReslicedMask.pix[q] = Val(0) /\ ReslicedVolume.pix[q] # 0
       /\ masked.pix[q] = 0

(* C6: the mask buffer is completely filled before the reslice first reads  *)
(* it, and what the volume mapper reads are the voxel values the reslice    *)
(* read.                                                                    *)
C6_MaskFilledBeforeRead ==
  /\ Reached("reslice2") => \A k \in 1..Len(mask.buf) : mask.buf[k] # Uninit
  /\ Rendered => texture = mask.buf

\* The six stages of the script; 7 is the return from main().
StageOf(p) ==
  CASE p = "read" -> 1
    [] p \in {"params", "center", "mask", "ptr", "cylinder", "zhead", "yhead",
              "xhead"} -> 2
    [] p \in {"reslice1", "copy1", "reslice2", "copy2", "shiftScale", "imMath"} -> 3
    [] p \in {"mapper", "transfer"} -> 4
    [] p \in {"renderers", "render", "start"} -> 5
    [] p = "eventloop" -> 6
    [] OTHER -> 7

(* C7: the stages run once each, in the order load, mask, filter chain,     *)
(* mapper and transfer functions, renderers, event loop: a step stays in    *)
(* its stage or enters the next one (or the process faults), the event loop *)
(* starts only with every earlier stage's work done, and nothing earlier    *)
(* runs once it has started.                                                *)
C7_LinearScript ==
  /\ [][ pc' = "crashed" \/ StageOf(pc') = StageOf(pc)
         \/ StageOf(pc') = StageOf(pc) + 1 ]_vars
  /\ [][ pc = "eventloop" => pc' \in {"eventloop", "done"} ]_vars
  /\ [](pc = "eventloop" =>
          /\ vol.type # "none"
          /\ z = dims[3] /\ mask.type = "uchar"
          /\ reslice.input = "mask" /\ imMath.op = "multiply"
          /\ volumeMapper.maskType = "binary" /\ scene.ctfPoints = 7
          /\ scene.renderers = NumRenderers /\ scene.interactor)

\* The event loop runs and has handled an interaction.
C7_Witness == pc = "eventloop" /\ camera > 0 /\ Len(stores) > 0

(* C8: after the shift-scale step every pixel of the scaled mask slice is   *)
(* 0 or 1, whatever the resliced mask value in 0..255.  Stated for the     *)
(* runs in which every store of the loop was inside the buffer.             *)
C8_ScaledMaskIsBinary ==
  (~corrupt /\ \A k \in 1..Len(mask.buf) : mask.buf[k] # Uninit) =>
  \A p \in 1..Len(ScaledMask.pix) : ScaledMask.pix[p] \in {Val(0), Val(1)}

(* C9: the reslice filter's second run, on the mask, leaves the copied      *)
(* volume slice unchanged; the multiply step has the volume's slice as      *)
(* input 1 and the scaled mask's slice as input 2.                          *)
C9_CopiesIndependent ==
  /\ [][ pc = "reslice2" =>
           objs'[names'.reslicedVolume] = objs[names.reslicedVolume] ]_vars
  /\ [](Reached("copy2") => ReslicedVolume.src = "volume")
  /\ [](imMath.op = "multiply" =>
          /\ objs[imMath.in1].src = "volume"
          /\ objs[imMath.in2].src = "mask"
          /\ objs[imMath.in1] = ReslicedVolume)

\* The mask has been resliced and copied, and the two slices differ.
C9_Witness ==
  /\ Reached("shiftScale")
  /\ ReslicedVolume.src = "volume" /\ ReslicedMask.src = "mask"
  /\ objs[names.resliceOut].src = "mask"
  /\ \E p \in 1..Len(ReslicedVolume.pix) :
       ReslicedVolume.pix[p] # 0 /\ ReslicedVolume.pix[p] # ReslicedMask.pix[p]

(* C10: the loop makes dims[0]*dims[1]*dims[2] stores, x fastest, starting  *)
(* at the first voxel of the mask's buffer, and no store is outside the     *)
(* buffer.                                                                  *)
C10_StoresInBuffer ==
  /\ (Reached("cylinder") /\ Len(mask.buf) > 0 /\ Len(stores) = 0)
       => ptr = [null |-> FALSE, off |-> 0]
  /\ \A i \in 1..Len(stores) :
       /\ ~stores[i].null
       /\ stores[i].off = i - 1
       /\ stores[i].off < Len(mask.buf)
       /\ stores[i].lx = VX(i) /\ stores[i].ly = VY(i) /\ stores[i].lz = VZ(i)
  /\ PastLoop => Len(stores) = NumVoxels(mask)

=============================================================================
